---- MODULE Spec2Model ----
(***************************************************************************)
(* Model of the bounded-concurrency ingestion pipeline of                  *)
(* Taxi_Event_Reader_MT_Pool.py: main (the coordinator), the thread pool   *)
(* it drives, process_object (one worker per S3 object), the line parser   *)
(* TripEvent/Event and the process-wide statistics.                        *)
(*                                                                         *)
(* Time is a discrete clock `now` in seconds that advances in steps of     *)
(* TickSeconds.  An S3 key is a sequence of one-character strings.         *)
(***************************************************************************)
EXTENDS Integers, Sequences, FiniteSets, TLC

----------------------------------------------------------------------------
(* Bounds of the model (the program's values are 20 files and 10 workers). *)

\* MAX_FILES (Taxi_Event_Reader_MT_Pool.py:29), scaled down
MAX_FILES == 3

\* the 10 of MAX_WORKERS = min(10, MAX_FILES) (:31), scaled down
MAX_WORKERS_CAP == 2

\* the clock stops advancing at MaxTime seconds
MaxTime == 1200

\* the clock advances by TickSeconds
TickSeconds == 600

----------------------------------------------------------------------------
(* Program constants *)

DOWNLOAD_TIMEOUT == 300

MAX_WORKERS == IF MAX_WORKERS_CAP < MAX_FILES THEN MAX_WORKERS_CAP ELSE MAX_FILES

\* Python's None for earliest_time / latest_time
None == 0 - 1

OUTPUT_DIR == <<".", "/", "o", "/">>

----------------------------------------------------------------------------
(* The environment: the bucket and the decoded content of its objects.     *)

\* A decoded line.  kind: "trip" is a JSON object with trip_id and an ISO
\* dropoff_datetime; "notjson" is not JSON; "nodropoff" is JSON without the
\* dropoff_datetime field; "baddate" has a dropoff_datetime that is no ISO
\* date.  ts is the dropoff time in ms; nl is the number of "\n" that end
\* the line (iterating a BytesIO yields 1, or 0 for an unterminated last line).
Line(kind, ts, nl) == [kind |-> kind, ts |-> ts, nl |-> nl]

\* What get_object + stream_decompress can deliver for one object.
Contents ==
    { << Line("trip", 2, 1), Line("trip", 1, 0) >>,
      << Line("notjson", 0, 1), Line("trip", 3, 1) >>,
      << Line("nodropoff", 0, 1), Line("baddate", 0, 0) >> }

\* The keys the bucket holds under OBJECT_PREFIX, in listing order.
Bucket ==
    << <<"a", "/", "b">>, <<"a", "b">>, <<"c", "\\", "d">> >>

Min(a, b) == IF a < b THEN a ELSE b

----------------------------------------------------------------------------
VARIABLES
    objs,        \* main: the listed keys (a sequence), <<>> before listing
    mpc,         \* main: where the coordinator is
    exc,         \* main: the exception propagating out of the with block
    submitted,   \* main: how many of objs have been submitted to the pool
    pending,     \* as_completed: futures not yet yielded
    end_time,    \* as_completed: the batch deadline
    outputs,     \* main: out_path of every object that completed
    report,      \* main: what the loop logged for each object
    summary,     \* main: the final summary
    now,         \* the clock
    pc,          \* per object: the stage of its worker
    err,         \* per object: the exception its future holds
    stream,      \* per object: the decoded content (the BytesIO)
    pos,         \* per object: how many lines of stream have been read
    events,      \* per object: process_object's local counter
    written,     \* per object: the lines written through its file handle
    fh,          \* per object: the state of its output file handle
    start_proc,  \* per object: when the line loop started
    result,      \* per object: the tuple process_object returned
    total_events, total_processing_time, earliest_time, latest_time,
    raw_line,    \* line loop: the bytes `raw` that iterating the stream yielded
    line_pc,     \* line loop: where the loop body is
    line_text,   \* line loop: `line`, the decoded text
    line_ev,     \* line loop: `ev`, the object TripEvent(line) constructed
    sniff_in,    \* FileFormatDetection: the arguments of a sniff call
    sniff_out,   \* FileFormatDetection: what the call returned
    SIGNATURES,  \* FileFormatDetection: the module's signature table
    add_call     \* FileFormatDetection: the last add_signature call

\* the state of the pipeline: main, the pool and the workers
pipelineVars == << objs, mpc, exc, submitted, pending, end_time, outputs, report,
                   summary, now, pc, err, stream, pos, events, written, fh,
                   start_proc, result, total_events, total_processing_time,
                   earliest_time, latest_time >>

mainVars == << objs, mpc, exc, submitted, pending, end_time, outputs,
               report, summary >>

statsVars == << total_events, total_processing_time, earliest_time, latest_time >>

lineVars == << stream, pos, events, written, fh, start_proc >>

\* the state of one pass of the loop body, taken on its own
bodyVars == << raw_line, line_pc, line_text, line_ev >>

\* the state of the FileFormatDetection module and of one call into it
sniffVars == << sniff_in, sniff_out >>

sigVars == << SIGNATURES, add_call >>

libVars == << bodyVars, sniffVars, sigVars >>

vars == << pipelineVars, libVars >>

Objs == 1 .. MAX_FILES

Listed == 1 .. Len(objs)

NoResult == [out_path |-> << >>, events |-> None, proc_time |-> None]

NoSummary == [emitted |-> FALSE, processed |-> 0, total_events |-> 0]

----------------------------------------------------------------------------
(* Pure functions *)

\* safe_filename_from_key: "/" and "\" are removed, ext is appended
safe_filename_from_key(key, ext) ==
    SelectSeq(SelectSeq(key, LAMBDA c : c # "/"), LAMBDA c : c # "\\") \o ext

\* out_path = os.path.join(OUTPUT_DIR, safe_filename_from_key(key, ".ndjson"))
OutPath(key) == OUTPUT_DIR \o safe_filename_from_key(key, << ".ndjson" >>)

\* Event.__init__: the payload is the text, with "\n" appended when the text
\* does not end with one
Event__init__(payload) ==
    IF payload.nl = 0 THEN [payload EXCEPT !.nl = 1] ELSE payload

\* TripEvent._init_ (single underscores): what the method would set, were it
\* called.  json.loads raises ValueError on text that is not JSON, the
\* subscript raises KeyError on a missing field, fromisoformat raises
\* ValueError on a bad date.
TripEvent_init_(payload) ==
    CASE payload.kind = "notjson"   -> [raised |-> "ValueError", timestamp |-> None]
      [] payload.kind = "nodropoff" -> [raised |-> "KeyError", timestamp |-> None]
      [] payload.kind = "baddate"   -> [raised |-> "ValueError", timestamp |-> None]
      [] OTHER                      -> [raised |-> "none", timestamp |-> payload.ts]

\* TripEvent(line) of a class whose constructor is the method _init_: the
\* object has a timestamp when the method raises nothing
TripEventConstructed(line) ==
    LET t == TripEvent_init_(Event__init__(line))
    IN  [payload |-> Event__init__(line),
         attrs |-> IF t.raised = "none" THEN {"payload", "timestamp"} ELSE {"payload"},
         timestamp |-> t.timestamp]

\* The call TripEvent(line).  The class defines _init_, not __init__, so
\* Python constructs the object with the inherited Event.__init__ alone:
\* the object has a payload and no timestamp attribute.
TripEvent(line) ==
    [payload |-> Event__init__(line), attrs |-> {"payload"}, timestamp |-> None]

\* ev.timestamp of an object that _init_ has initialised
GetTimestampParsed(ev) ==
    LET t == TripEvent_init_(ev.payload)
    IN  [raised |-> t.raised, value |-> t.timestamp]

\* ev.timestamp: AttributeError when the object has no such attribute
GetTimestamp(ev) ==
    IF "timestamp" \in ev.attrs
    THEN [raised |-> "none", value |-> ev.timestamp]
    ELSE [raised |-> "AttributeError", value |-> None]

\* One pass of the loop body (lines 145-171) up to the write: the exception
\* the inner try catches ("none" when the line is accepted), the timestamp
\* and the text to write.
LineStep(raw) ==
    LET ev   == TripEvent(raw)
        ts   == GetTimestamp(ev)
        text == IF raw.nl = 0 THEN [raw EXCEPT !.nl = 1] ELSE raw
    IN  [raised |-> ts.raised, ts_ms |-> ts.value, text |-> text]

\* lines 153-156, under stats_lock
FoldEarliest(cur, ts_ms) == IF cur = None \/ ts_ms < cur THEN ts_ms ELSE cur

FoldLatest(cur, ts_ms) == IF cur = None \/ ts_ms > cur THEN ts_ms ELSE cur

\* AddEvents counting one per object instead of the object's events
AddEventsPerObject(total, n) == total + 1

\* line 183, under stats_lock
AddEvents(total, n) == total + n

\* actual_workers = min(MAX_WORKERS, len(objs))
actual_workers == Min(MAX_WORKERS, Len(objs))

Finished(o) == pc[o] \in {"done", "failed"}

Running(o) == pc[o] \in {"fetching", "decoding", "parsing", "stats"}

----------------------------------------------------------------------------
(* The body of the line loop (lines 145-148), one line at a time *)

\* the timestamps a dropoff_datetime can hold
MaxTs == 3

\* how many two-character sequences backslash-n may end the text of a line
MaxEsc == 2

\* The bytes `raw` of one line as iterating the BytesIO yields them: the
\* line of the same kind and ts whose text ends, before its nl terminating
\* newlines, with esc two-character sequences backslash-n.
RawLine(kind, ts, nl, esc) == [kind |-> kind, ts |-> ts, nl |-> nl, esc |-> esc]

RawLines ==
    { RawLine(k, t, n, e) : k \in {"trip", "notjson", "nodropoff", "baddate"},
                            t \in 1 .. MaxTs, n \in 0 .. 1, e \in 0 .. MaxEsc }

\* raw.decode("unicode_escape") (line 146): every escape sequence becomes
\* the character it names, so each backslash-n that ends the text becomes a
\* newline in front of the terminator.  json.loads ignores trailing
\* whitespace: the kind of the line stays.
unicode_escape(raw) == Line(raw.kind, raw.ts, raw.nl + raw.esc)

NoRawLine == RawLine("none", 0, 0, 0)

NoLine == Line("none", 0, 0)

NoEvent == [payload |-> NoLine, attrs |-> {}, timestamp |-> None]

BodyIdle ==
    /\ raw_line = NoRawLine
    /\ line_pc = "idle"
    /\ line_text = NoLine
    /\ line_ev = NoEvent

----------------------------------------------------------------------------
(* FileFormatDetection.py.  A byte is an integer in 0 .. 255 and bytes are *)
(* a sequence of them.  A confidence is in hundredths (1.0 is 100).  An    *)
(* evidence string is the sequence of the strings it is put together from. *)

\* the defaults of head_n, tail_n, tar_probe_offset and tar_probe_len
HEAD_N == 64

TAIL_N == 64

TAR_PROBE_OFFSET == 257

TAR_PROBE_LEN == 8

\* A signature is a Python dict: a function from the keys it has to their
\* values.  The heuristic lambda of the table is "head is not empty and
\* lo <= head[0] <= hi", kept as << lo, hi >>.
StartSig(patterns, evidence) == [start |-> patterns, evidence |-> evidence]

Entry(name, sig) == [name |-> name, sig |-> sig]

PAR1 == << 80, 65, 82, 49 >>

ORC == << 79, 82, 67 >>

USTAR_NUL == << 117, 115, 116, 97, 114, 0 >>

USTAR_SP == << 117, 115, 116, 97, 114, 32, 32 >>

GZIP_MAGIC == << 31, 139 >>

\* SIGNATURES as the module defines it; a dict keeps its insertion order
SignatureTable ==
    << Entry("gzip", StartSig(<< GZIP_MAGIC >>, "Starts with 1f 8b (gzip).")),
       Entry("zstd", StartSig(<< << 40, 181, 47, 253 >> >>,
                              "Starts with 28 b5 2f fd (zstd).")),
       Entry("bzip2", StartSig(<< << 66, 90, 104 >> >>,
                               "Starts with 'BZh' (bzip2).")),
       Entry("lz4-frame", StartSig(<< << 4, 34, 77, 24 >> >>,
                                   "Starts with 04 22 4d 18 (LZ4 frame).")),
       Entry("xz", StartSig(<< << 253, 55, 122, 88, 90, 0 >> >>,
                            "Starts with fd 37 7a 58 5a 00 (XZ).")),
       Entry("zip", StartSig(<< << 80, 75, 3, 4 >>, << 80, 75, 5, 6 >>,
                                << 80, 75, 7, 8 >> >>,
                             "Starts with PK (ZIP container).")),
       Entry("7z", StartSig(<< << 55, 122, 188, 175, 39, 28 >> >>,
                            "Starts with 37 7a bc af 27 1c (7z archive).")),
       Entry("snappy-framed",
             StartSig(<< << 255, 6, 0, 0, 115, 78, 97, 80, 112, 89 >> >>,
                      "Starts with ff 06 00 00 'sNaPpY' (Snappy framed).")),
       Entry("brotli",
             [heuristic |-> << 145, 159 >>,
              evidence |-> "First byte in range 0x91-0x9F (Brotli heuristic).",
              confidence |-> 50]),
       Entry("parquet",
             [start |-> << PAR1 >>, end |-> << PAR1 >>,
              evidence |-> "Has 'PAR1' at start and end (Parquet)."]),
       Entry("orc",
             [end_contains |-> << ORC >>,
              evidence |-> "Tail contains 'ORC' in postscript (ORC)."]),
       Entry("tar",
             [tar_magic |-> << USTAR_NUL, USTAR_SP >>,
              evidence |-> "Has 'ustar' at offset 257 (TAR)."]) >>

Max(a, b) == IF a > b THEN a ELSE b

\* fp.read(n) at position at: the bytes that are there, at most n of them
Read(data, at, n) == SubSeq(data, at + 1, Min(at + n, Len(data)))

\* buf.startswith(p), buf.endswith(p), p in buf
startswith(buf, p) == Len(p) <= Len(buf) /\ SubSeq(buf, 1, Len(p)) = p

endswith(buf, p) ==
    Len(p) <= Len(buf) /\ SubSeq(buf, Len(buf) - Len(p) + 1, Len(buf)) = p

contains(buf, p) ==
    \E i \in 1 .. (Len(buf) - Len(p) + 1) : SubSeq(buf, i, i + Len(p) - 1) = p

starts_with_any(buf, patterns) ==
    \E i \in DOMAIN patterns : patterns[i] # << >> /\ startswith(buf, patterns[i])

ends_with_any(buf, patterns) ==
    \E i \in DOMAIN patterns : patterns[i] # << >> /\ endswith(buf, patterns[i])

contains_any(buf, patterns) ==
    \E i \in DOMAIN patterns : patterns[i] # << >> /\ contains(buf, patterns[i])

FileFormatDetection(format, confidence, evidence) ==
    [format |-> format, confidence |-> confidence, evidence |-> evidence]

\* FileFormatDetection.is_known
is_known(d) == d.format # "unknown" /\ d.confidence > 0

\* SigMatches that does not look at the "end" key of a signature
SigMatchesNoEnd(sig, head, tail, tar_slice) ==
    IF "heuristic" \in DOMAIN sig
    THEN head # << >> /\ sig.heuristic[1] <= head[1] /\ head[1] <= sig.heuristic[2]
    ELSE /\ "start" \in DOMAIN sig => starts_with_any(head, sig.start)
         /\ "end_contains" \in DOMAIN sig => contains_any(tail, sig.end_contains)
         /\ "tar_magic" \in DOMAIN sig => starts_with_any(tar_slice, sig.tar_magic)

\* the body of the loop of _detect_from_ranges for one signature: whether
\* the function returns at it (lines 188-205)
SigMatches(sig, head, tail, tar_slice) ==
    IF "heuristic" \in DOMAIN sig
    THEN head # << >> /\ sig.heuristic[1] <= head[1] /\ head[1] <= sig.heuristic[2]
    ELSE /\ "start" \in DOMAIN sig => starts_with_any(head, sig.start)
         /\ "end" \in DOMAIN sig => ends_with_any(tail, sig.end)
         /\ "end_contains" \in DOMAIN sig => contains_any(tail, sig.end_contains)
         /\ "tar_magic" \in DOMAIN sig => starts_with_any(tar_slice, sig.tar_magic)

\* the detection the loop returns for the table entry e:
\* confidence = sig.get("confidence", 1.0)
DetectionOf(e) ==
    FileFormatDetection(e.name,
                        IF "confidence" \in DOMAIN e.sig THEN e.sig.confidence ELSE 100,
                        << e.sig.evidence >>)

\* _detect_from_ranges: the first entry of SIGNATURES, in the order of the
\* dict, that matches; "unknown" when none does
_detect_from_ranges(head, tail, tar_slice) ==
    LET hits == { i \in DOMAIN SIGNATURES :
                    SigMatches(SIGNATURES[i].sig, head, tail, tar_slice) }
    IN  IF hits = {}
        THEN FileFormatDetection("unknown", 0, << "No decisive signature found." >>)
        ELSE DetectionOf(SIGNATURES[CHOOSE i \in hits : \A j \in hits : i <= j])

\* What a call does: it returns a value or raises; seeks are the positions
\* it moved its file object to, in order.
Return(value, seeks) == [raised |-> "none", value |-> value, seeks |-> seeks]

NoDetection == FileFormatDetection("none", 0, << >>)

Raised(e) == [raised |-> e, value |-> NoDetection, seeks |-> << >>]

\* A file or stream: data are its bytes, seekable is what seekable()
\* answers, and its fail_at-th method call (open included) raises OSError;
\* 0 when none does.  exists is os.path.exists of a file path.
Source(data, seekable, fail_at, exists) ==
    [data |-> data, seekable |-> seekable, fail_at |-> fail_at, exists |-> exists]

\* the source after n of its method calls were made without a failure
After(fp, n) == [fp EXCEPT !.fail_at = IF @ > n THEN @ - n ELSE 0]

\* BytesIO(data)
BytesIO(data) == Source(data, TRUE, 0, TRUE)

\* _read_ranges without the size test of line 166: the TAR slice is read
\* from every stream
_read_ranges_unguarded(fp, head_n, tail_n, tar_probe_offset, tar_probe_len) ==
    LET size     == Len(fp.data)
        tail_len == Min(tail_n, size)
        tail_at  == Max(0, size - tail_len)
        calls    == 9
    IN  IF ~fp.seekable THEN Raised("ValueError") @@ [calls |-> 1]
        ELSE IF fp.fail_at \in 1 .. calls THEN Raised("OSError") @@ [calls |-> fp.fail_at]
        ELSE [raised |-> "none", calls |-> calls,
              head |-> Read(fp.data, 0, head_n),
              tail |-> Read(fp.data, tail_at, tail_len),
              tar_slice |-> Read(fp.data, tar_probe_offset, tar_probe_len),
              seeks |-> << size, 0, tail_at, tar_probe_offset >>]

\* _read_ranges (lines 148-170).  Its method calls on fp: seekable, seek,
\* tell, seek, read, seek, read, and seek, read for the TAR slice.
_read_ranges(fp, head_n, tail_n, tar_probe_offset, tar_probe_len) ==
    LET size     == Len(fp.data)
        tail_len == Min(tail_n, size)
        tail_at  == Max(0, size - tail_len)
        probe    == size >= tar_probe_offset + tar_probe_len
        calls    == IF probe THEN 9 ELSE 7
    IN  IF ~fp.seekable THEN Raised("ValueError") @@ [calls |-> 1]
        ELSE IF fp.fail_at \in 1 .. calls THEN Raised("OSError") @@ [calls |-> fp.fail_at]
        ELSE [raised |-> "none", calls |-> calls,
              head |-> Read(fp.data, 0, head_n),
              tail |-> Read(fp.data, tail_at, tail_len),
              tar_slice |-> IF probe
                            THEN Read(fp.data, tar_probe_offset, tar_probe_len)
                            ELSE << >>,
              seeks |-> << size, 0, tail_at >>
                        \o (IF probe THEN << tar_probe_offset >> ELSE << >>)]

\* lines 230-232, the body of the try of sniff_format: open, _read_ranges,
\* _detect_from_ranges and the close that ends the with block
sniff_format_try(file_path, head_n, tail_n) ==
    IF file_path.fail_at = 1 THEN Raised("OSError")
    ELSE LET r == _read_ranges(After(file_path, 1), head_n, tail_n,
                               TAR_PROBE_OFFSET, TAR_PROBE_LEN)
         IN  IF r.raised # "none" THEN Raised(r.raised)
             ELSE IF file_path.fail_at = 1 + r.calls + 1 THEN Raised("OSError")
             ELSE Return(_detect_from_ranges(r.head, r.tail, r.tar_slice), r.seeks)

\* sniff_format (lines 226-234); file_path stands for the file it names
sniff_format(file_path, head_n, tail_n) ==
    IF ~file_path.exists
    THEN Return(FileFormatDetection("unknown", 0, << "File not found." >>), << >>)
    ELSE LET body == sniff_format_try(file_path, head_n, tail_n)
         IN  IF body.raised # "none"
             THEN Return(FileFormatDetection("unknown", 0,
                                             << "I/O error: ", body.raised >>), << >>)
             ELSE body

\* PartialDetection that leaves the confidence and the evidence as they are
PartialDetectionUnreduced(head) == _detect_from_ranges(head, << >>, << >>)

\* lines 274-278: partial detection from the head alone
PartialDetection(head) ==
    LET partial_detection == _detect_from_ranges(head, << >>, << >>)
    IN  IF is_known(partial_detection)
        THEN [partial_detection EXCEPT
                 !.confidence = (@ * 80) \div 100,
                 !.evidence = @ \o << " (partial detection from head only)." >>]
        ELSE partial_detection

\* lines 262-284, the body of the try of sniff_stream.  The stream is at
\* position 0 when it is passed in.  An exception in the inner try runs the
\* seek of the finally and goes on; an exception of that seek replaces the
\* return value.
sniff_stream_try(strm, head_n, tail_n, buffer_non_seekable) ==
    IF strm.fail_at = 1 THEN Raised("OSError")
    ELSE IF strm.seekable
    THEN IF strm.fail_at = 2 THEN Raised("OSError")
         ELSE LET r == _read_ranges(After(strm, 2), head_n, tail_n,
                                    TAR_PROBE_OFFSET, TAR_PROBE_LEN)
              IN  IF r.raised # "none" THEN Raised(r.raised)
                  ELSE IF strm.fail_at = 2 + r.calls + 1 THEN Raised("OSError")
                  ELSE Return(_detect_from_ranges(r.head, r.tail, r.tar_slice),
                              r.seeks \o << 0 >>)
    ELSE IF strm.fail_at = 2 THEN Raised("OSError")
    ELSE IF ~buffer_non_seekable
    THEN Return(PartialDetection(Read(strm.data, 0, head_n)), << >>)
    ELSE LET r == _read_ranges(BytesIO(strm.data), head_n, tail_n,
                               TAR_PROBE_OFFSET, TAR_PROBE_LEN)
         IN  IF r.raised # "none" THEN Raised(r.raised)
             ELSE Return(_detect_from_ranges(r.head, r.tail, r.tar_slice), r.seeks)

\* sniff_stream without the except clause of lines 285-286
sniff_stream_no_except(strm, head_n, tail_n, buffer_non_seekable) ==
    sniff_stream_try(strm, head_n, tail_n, buffer_non_seekable)

\* sniff_stream (lines 261-286)
sniff_stream(strm, head_n, tail_n, buffer_non_seekable) ==
    LET body == sniff_stream_try(strm, head_n, tail_n, buffer_non_seekable)
    IN  IF body.raised # "none"
        THEN Return(FileFormatDetection("unknown", 0,
                                        << "Stream read error: ", body.raised >>), << >>)
        ELSE body

\* DictSet that moves a key the dict holds to the end
DictSetLast(d, format_name, signature) ==
    Append(SelectSeq(d, LAMBDA e : e.name # format_name),
           Entry(format_name, signature))

\* the table after SIGNATURES[format_name] = signature: a key the dict holds
\* keeps its place, a new key goes last
DictSet(d, format_name, signature) ==
    IF \E i \in DOMAIN d : d[i].name = format_name
    THEN [i \in DOMAIN d |->
             IF d[i].name = format_name THEN Entry(format_name, signature) ELSE d[i]]
    ELSE Append(d, Entry(format_name, signature))

NoSniffIn ==
    [entry |-> "none", source |-> Source(<< >>, FALSE, 0, FALSE),
     buffer_non_seekable |-> FALSE]

NotCalled == Raised("not called")

NoCall ==
    [format_name |-> "", signature |-> [evidence |-> ""], overwrite |-> FALSE,
     raised |-> "none", n |-> 0]

SniffIdle == sniff_in = NoSniffIn /\ sniff_out = NotCalled

\* the module as imported
SigInit == SIGNATURES = SignatureTable /\ add_call = NoCall

----------------------------------------------------------------------------
PipelineInit ==
    /\ objs = << >>
    /\ mpc = "list"
    /\ exc = "none"
    /\ submitted = 0
    /\ pending = {}
    /\ end_time = 0
    /\ outputs = << >>
    /\ report = [o \in Objs |-> "none"]
    /\ summary = NoSummary
    /\ now = 0
    /\ pc = [o \in Objs |-> "unsubmitted"]
    /\ err = [o \in Objs |-> "none"]
    /\ stream = [o \in Objs |-> << >>]
    /\ pos = [o \in Objs |-> 0]
    /\ events = [o \in Objs |-> 0]
    /\ written = [o \in Objs |-> << >>]
    /\ fh = [o \in Objs |-> "none"]
    /\ start_proc = [o \in Objs |-> 0]
    /\ result = [o \in Objs |-> NoResult]
    /\ total_events = 0
    /\ total_processing_time = 0
    /\ earliest_time = None
    /\ latest_time = None

\* The program at start: nothing listed, the signature table as imported.
Init == PipelineInit /\ BodyIdle /\ SniffIdle /\ SigInit

----------------------------------------------------------------------------
(* The workers: process_object, run by a pool thread *)

\* Start of a pool that creates a thread for every queued work item,
\* whatever max_workers is
StartUnbounded(o) ==
    /\ pc[o] = "queued"
    /\ \A p \in Listed : p < o => pc[p] # "queued"
    /\ pc' = [pc EXCEPT ![o] = "fetching"]
    /\ UNCHANGED << mainVars, statsVars, lineVars, now, err, result >>
    /\ UNCHANGED libVars

\* A pool thread takes the next work item off the executor's FIFO queue.
Start(o) ==
    /\ pc[o] = "queued"
    /\ \A p \in Listed : p < o => pc[p] # "queued"
    /\ Cardinality({p \in Listed : Running(p)}) < actual_workers
    /\ pc' = [pc EXCEPT ![o] = "fetching"]
    /\ UNCHANGED << mainVars, statsVars, lineVars, now, err, result >>
    /\ UNCHANGED libVars

\* An exception leaves process_object (lines 191-193): the future holds it.
\* The with statement has closed the file if it was open.
Raise(o, e) ==
    /\ pc' = [pc EXCEPT ![o] = "failed"]
    /\ err' = [err EXCEPT ![o] = e]
    /\ fh' = [fh EXCEPT ![o] = IF @ = "open" THEN "closed" ELSE @]

\* get_object and Body.read (lines 91-93)
Fetch(o) ==
    /\ pc[o] = "fetching"
    /\ \/ /\ pc' = [pc EXCEPT ![o] = "decoding"]
          /\ UNCHANGED << err, fh >>
       \/ \E e \in {"Exception", "TimeoutError"} : Raise(o, e)
    /\ UNCHANGED << mainVars, statsVars, now, result, stream, pos, events,
                    written, start_proc >>
    /\ UNCHANGED libVars

\* stream_decompress, sniff_stream, makedirs and open(out_path, "w")
\* (lines 102-142)
Decode(o) ==
    /\ pc[o] = "decoding"
    /\ \/ /\ \E c \in Contents : stream' = [stream EXCEPT ![o] = c]
          /\ pc' = [pc EXCEPT ![o] = "parsing"]
          /\ fh' = [fh EXCEPT ![o] = "open"]
          /\ start_proc' = [start_proc EXCEPT ![o] = now]
          /\ UNCHANGED err
       \/ /\ \E e \in {"Exception", "TimeoutError"} : Raise(o, e)
          /\ UNCHANGED << stream, start_proc >>
    /\ UNCHANGED << mainVars, statsVars, now, result, pos, events, written >>
    /\ UNCHANGED libVars

\* One iteration of "for raw in stream" (lines 144-171)
ProcessLine(o) ==
    /\ pc[o] = "parsing"
    /\ pos[o] < Len(stream[o])
    /\ LET r == LineStep(stream[o][pos[o] + 1]) IN
         /\ pos' = [pos EXCEPT ![o] = @ + 1]
         /\ IF r.raised = "none"
            THEN /\ earliest_time' =
                        IF r.ts_ms # None THEN FoldEarliest(earliest_time, r.ts_ms)
                        ELSE earliest_time
                 /\ latest_time' =
                        IF r.ts_ms # None THEN FoldLatest(latest_time, r.ts_ms)
                        ELSE latest_time
                 /\ written' = [written EXCEPT ![o] = Append(@, r.text)]
                 /\ events' = [events EXCEPT ![o] = @ + 1]
            ELSE \* except ValueError / except Exception: logged, the line is skipped
                 UNCHANGED << earliest_time, latest_time, written, events >>
    /\ UNCHANGED << mainVars, now, pc, err, result, stream, fh, start_proc,
                    total_events, total_processing_time >>
    /\ UNCHANGED libVars

\* The loop is over: fh.flush() in the finally, the with closes the file,
\* stream.close(), proc_time (lines 173-179).  flush or close may raise.
Close(o) ==
    /\ pc[o] = "parsing"
    /\ pos[o] = Len(stream[o])
    /\ stream' = [stream EXCEPT ![o] = << >>]
    /\ pos' = [pos EXCEPT ![o] = 0]
    /\ start_proc' = [start_proc EXCEPT ![o] = 0]
    /\ \/ /\ pc' = [pc EXCEPT ![o] = "stats"]
          /\ fh' = [fh EXCEPT ![o] = "closed"]
          /\ result' = [result EXCEPT ![o].proc_time = now - start_proc[o]]
          /\ UNCHANGED err
       \/ /\ \E e \in {"Exception", "TimeoutError"} : Raise(o, e)
          /\ UNCHANGED result
    /\ UNCHANGED << mainVars, statsVars, now, events, written >>
    /\ UNCHANGED libVars

\* with stats_lock: total_events += events; total_processing_time += proc_time
\* and the return (lines 182-189)
RecordStats(o) ==
    /\ pc[o] = "stats"
    /\ total_events' = AddEvents(total_events, events[o])
    /\ total_processing_time' = total_processing_time + result[o].proc_time
    /\ result' = [result EXCEPT ![o].out_path = OutPath(objs[o]),
                                ![o].events = events[o]]
    /\ pc' = [pc EXCEPT ![o] = "done"]
    /\ UNCHANGED << mainVars, lineVars, now, err, earliest_time, latest_time >>
    /\ UNCHANGED libVars

----------------------------------------------------------------------------
(* The coordinator: main *)

\* list_s3_objects returns up to MAX_FILES keys, or [] (also on a listing
\* error); with no object main logs "No S3 objects found" and returns.
ListObjects ==
    /\ mpc = "list"
    /\ \E n \in 0 .. Min(MAX_FILES, Len(Bucket)) :
         /\ objs' = SubSeq(Bucket, 1, n)
         /\ mpc' = IF n = 0 THEN "no_objects" ELSE "submit"
    /\ UNCHANGED << exc, submitted, pending, end_time, outputs, report,
                    summary, now, pc, err, result, lineVars, statsVars >>
    /\ UNCHANGED libVars

\* pool.submit(process_object, obj), one object of the comprehension (line 217)
Submit ==
    /\ mpc = "submit"
    /\ submitted < Len(objs)
    /\ submitted' = submitted + 1
    /\ pc' = [pc EXCEPT ![submitted + 1] = "queued"]
    /\ UNCHANGED << objs, mpc, exc, pending, end_time, outputs, report,
                    summary, now, err, result, lineVars, statsVars >>
    /\ UNCHANGED libVars

\* as_completed(futures, timeout=DOWNLOAD_TIMEOUT * len(objs)) is entered
AsCompleted ==
    /\ mpc = "submit"
    /\ submitted = Len(objs)
    /\ mpc' = "collect"
    /\ pending' = Listed
    /\ end_time' = now + DOWNLOAD_TIMEOUT * Len(objs)
    /\ UNCHANGED << objs, exc, submitted, outputs, report, summary, now,
                    pc, err, result, lineVars, statsVars >>
    /\ UNCHANGED libVars

\* What the loop body logs for a yielded future (lines 221-231)
Outcome(o) ==
    CASE pc[o] = "done"          -> "completed"
      [] err[o] = "TimeoutError" -> "timeout"
      [] OTHER                   -> "failed"

\* Collect without the handlers of lines 227-231: the exception that
\* fut.result() re-raises leaves the loop and the with block
CollectNoCatch(o) ==
    /\ mpc = "collect"
    /\ o \in pending
    /\ Finished(o)
    /\ now <= end_time
    /\ pending' = pending \ {o}
    /\ IF pc[o] = "done"
       THEN /\ report' = [report EXCEPT ![o] = "completed"]
            /\ outputs' = Append(outputs, result[o].out_path)
            /\ UNCHANGED << mpc, exc >>
       ELSE /\ mpc' = "shutdown"
            /\ exc' = err[o]
            /\ UNCHANGED << report, outputs >>
    /\ UNCHANGED << objs, submitted, end_time, summary, now, pc, err,
                    result, lineVars, statsVars >>
    /\ UNCHANGED libVars

\* as_completed wakes up before its deadline and yields a finished future;
\* one iteration of the loop body follows (lines 220-231).  The futures
\* as_completed takes together are yielded one after the other, and nothing
\* else reads the clock or the coordinator's variables in between, so each
\* is taken on its own here.
Collect(o) ==
    /\ mpc = "collect"
    /\ o \in pending
    /\ Finished(o)
    /\ now <= end_time
    /\ pending' = pending \ {o}
    /\ report' = [report EXCEPT ![o] = Outcome(o)]
    /\ outputs' = IF pc[o] = "done" THEN Append(outputs, result[o].out_path)
                  ELSE outputs
    /\ UNCHANGED << objs, mpc, exc, submitted, end_time, summary, now, pc, err,
                    result, lineVars, statsVars >>
    /\ UNCHANGED libVars

\* as_completed finds futures unfinished past its deadline and raises
\* TimeoutError, which leaves the for loop and the with block
DeadlineRaise ==
    /\ mpc = "collect"
    /\ pending # {}
    /\ now > end_time
    /\ mpc' = "shutdown"
    /\ exc' = "TimeoutError"
    /\ UNCHANGED << objs, submitted, pending, end_time, outputs, report,
                    summary, now, pc, err, result, lineVars, statsVars >>
    /\ UNCHANGED libVars

\* every future was yielded: the for loop ends
LoopEnd ==
    /\ mpc = "collect"
    /\ pending = {}
    /\ mpc' = "shutdown"
    /\ UNCHANGED << objs, exc, submitted, pending, end_time, outputs,
                    report, summary, now, pc, err, result, lineVars, statsVars >>
    /\ UNCHANGED libVars

\* SIGINT: signal_handler runs in the main thread and sys.exit(0) raises
\* SystemExit there (lines 48-54)
signal_handler ==
    /\ mpc \in {"list", "submit", "collect", "shutdown"}
    /\ exc # "SystemExit"
    /\ exc' = "SystemExit"
    /\ mpc' = IF mpc = "list" THEN "exited" ELSE "shutdown"
    /\ UNCHANGED << objs, submitted, pending, end_time, outputs, report,
                    summary, now, pc, err, result, lineVars, statsVars >>
    /\ UNCHANGED libVars

\* lines 243-254: the summary is logged only when total_events > 0
Summary ==
    IF total_events > 0
    THEN [emitted |-> TRUE, processed |-> Len(outputs), total_events |-> total_events]
    ELSE NoSummary

\* The with block is left: ThreadPoolExecutor.__exit__ is shutdown(wait=True),
\* which returns when every submitted work item has run.  Then the exception,
\* if any, goes on: TimeoutError is caught at line 236 ("ThreadPool error",
\* return), SystemExit ends the process, and without one main logs the summary.
PoolExit ==
    /\ mpc = "shutdown"
    /\ \A o \in 1 .. submitted : Finished(o)
    /\ mpc' = CASE exc = "none"         -> "done"
                [] exc = "TimeoutError" -> "pool_error"
                [] OTHER                -> "exited"
    /\ summary' = IF exc = "none" THEN Summary ELSE summary
    /\ UNCHANGED << objs, exc, submitted, pending, end_time, outputs,
                    report, now, pc, err, result, lineVars, statsVars >>
    /\ UNCHANGED libVars

\* Time passes while some worker is at work (blocked in I/O, decoding or in
\* its line loop); an idle pool thread takes queued work at once.
Tick ==
    /\ mpc \in {"submit", "collect", "shutdown"}
    /\ \E o \in Listed : Running(o)
    /\ now < MaxTime
    /\ now' = now + TickSeconds
    /\ UNCHANGED << mainVars, pc, err, result, lineVars, statsVars >>
    /\ UNCHANGED libVars

----------------------------------------------------------------------------
Next ==
    \/ ListObjects
    \/ Submit
    \/ AsCompleted
    \/ \E o \in Objs : Collect(o)
    \/ DeadlineRaise
    \/ LoopEnd
    \/ signal_handler
    \/ PoolExit
    \/ Tick
    \/ \E o \in Objs : Start(o)
    \/ \E o \in Objs : Fetch(o)
    \/ \E o \in Objs : Decode(o)
    \/ \E o \in Objs : ProcessLine(o)
    \/ \E o \in Objs : Close(o)
    \/ \E o \in Objs : RecordStats(o)

Spec == Init /\ [][Next]_vars

----------------------------------------------------------------------------
(* One pass of the body of the line loop, for every line a stream can      *)
(* yield: decode, construct the event, read its timestamp.                 *)

BodyInit ==
    /\ PipelineInit /\ SniffIdle /\ SigInit
    /\ raw_line \in RawLines
    /\ line_pc = "read"
    /\ line_text = NoLine
    /\ line_ev = NoEvent

\* line = raw.decode("unicode_escape") (line 146)
DecodeLine ==
    /\ line_pc = "read"
    /\ line_text' = unicode_escape(raw_line)
    /\ line_pc' = "decoded"
    /\ UNCHANGED << pipelineVars, raw_line, line_ev, sniffVars, sigVars >>

\* ev = TripEvent(line) (line 147)
Construct ==
    /\ line_pc = "decoded"
    /\ line_ev' = TripEvent(line_text)
    /\ line_pc' = "constructed"
    /\ UNCHANGED << pipelineVars, raw_line, line_text, sniffVars, sigVars >>

\* ts_ms = ev.timestamp (line 148): an exception is caught at lines 168-171
\* and the line is skipped
ReadTimestamp ==
    /\ line_pc = "constructed"
    /\ line_pc' = IF GetTimestamp(line_ev).raised = "none" THEN "accepted" ELSE "skipped"
    /\ UNCHANGED << pipelineVars, raw_line, line_text, line_ev, sniffVars, sigVars >>

BodyNext == DecodeLine \/ Construct \/ ReadTimestamp

SpecBody == BodyInit /\ [][BodyNext]_vars

----------------------------------------------------------------------------
(* One call of sniff_format or sniff_stream, for every blob of Blobs and   *)
(* every way the file or stream can fail, with the table as imported.      *)

\* the longest blob
MaxBlob == 300

\* the method call that fails is at most the MaxFailAt-th
MaxFailAt == 13

Prefixes ==
    { << >>, GZIP_MAGIC, << 31 >>, << 40, 181, 47, 253 >>, << 66, 90, 104 >>,
      << 4, 34, 77, 24 >>, << 253, 55, 122, 88, 90, 0 >>, << 80, 75, 3, 4 >>,
      << 80, 75, 5, 6 >>, << 80, 75, 7, 8 >>, << 80, 75, 1, 2 >>,
      << 55, 122, 188, 175, 39, 28 >>,
      << 255, 6, 0, 0, 115, 78, 97, 80, 112, 89 >>,
      << 144 >>, << 145 >>, << 159 >>, << 160 >>, PAR1, ORC, << 7, 7 >> }

Probes == { << >>, USTAR_NUL, USTAR_SP, << 117, 115, 116, 97, 114, 49 >> }

Zeros(n) == [i \in 1 .. n |-> 0]

Suffixes ==
    { << >>, PAR1, << 80, 65, 82 >>, ORC, ORC \o Zeros(20), ORC \o Zeros(70) }

Sizes == { 0, 1, 3, 4, 8, 70, 263, 264, 265, MaxBlob }

\* the blob of size bytes that starts with prefix, holds probe at the TAR
\* offset and ends with suffix, as far as they fit, and is 0 elsewhere
Blob(prefix, size, probe, suffix) ==
    [i \in 1 .. size |->
        IF i <= Len(prefix) THEN prefix[i]
        ELSE IF i > TAR_PROBE_OFFSET /\ i <= TAR_PROBE_OFFSET + Len(probe)
        THEN probe[i - TAR_PROBE_OFFSET]
        ELSE IF i > size - Len(suffix) /\ Len(suffix) <= size
        THEN suffix[i - (size - Len(suffix))]
        ELSE 0]

Blobs ==
    { Blob(p, n, t, x) : p \in Prefixes, n \in Sizes, t \in Probes, x \in Suffixes }

\* the blobs whose reads are made to fail
FailBlobs ==
    { Blob(GZIP_MAGIC, 8, << >>, << >>), Blob(<< 7, 7 >>, 70, << >>, << >>),
      Blob(<< >>, MaxBlob, USTAR_NUL, << >>) }

SniffCall(entry, source, buffer_non_seekable) ==
    [entry |-> entry, source |-> source, buffer_non_seekable |-> buffer_non_seekable]

SniffInputs ==
    { SniffCall("sniff_format", Source(b, TRUE, 0, TRUE), TRUE) : b \in Blobs }
    \cup { SniffCall("sniff_stream", Source(b, sk, 0, TRUE), bf) :
             b \in Blobs, sk \in BOOLEAN, bf \in BOOLEAN }
    \cup { SniffCall(e, Source(b, sk, f, x), bf) :
             e \in {"sniff_format", "sniff_stream"}, b \in FailBlobs,
             sk \in BOOLEAN, f \in 0 .. MaxFailAt, x \in BOOLEAN, bf \in BOOLEAN }

SniffInit ==
    /\ PipelineInit /\ BodyIdle /\ SigInit
    /\ sniff_in \in SniffInputs
    /\ sniff_out = NotCalled

CallSniffFormat ==
    /\ sniff_in.entry = "sniff_format"
    /\ sniff_out = NotCalled
    /\ sniff_out' = sniff_format(sniff_in.source, HEAD_N, TAIL_N)
    /\ UNCHANGED << pipelineVars, bodyVars, sniff_in, sigVars >>

CallSniffStream ==
    /\ sniff_in.entry = "sniff_stream"
    /\ sniff_out = NotCalled
    /\ sniff_out' = sniff_stream(sniff_in.source, HEAD_N, TAIL_N,
                                 sniff_in.buffer_non_seekable)
    /\ UNCHANGED << pipelineVars, bodyVars, sniff_in, sigVars >>

SniffNext == CallSniffFormat \/ CallSniffStream

SpecSniff == SniffInit /\ [][SniffNext]_vars

----------------------------------------------------------------------------
(* Calls of add_signature on the table as imported *)

\* how many calls of add_signature a behaviour makes
MaxAdds == 3

SigNames == {"gzip", "tar", "custom"}

CustomSigs ==
    { StartSig(<< << 67, 85, 83, 84 >> >>, "Starts with 'CUST'."),
      [end |-> << PAR1 >>, evidence |-> "Ends with 'PAR1'."] }

\* add_signature (lines 304-306)
add_signature(format_name, signature, overwrite) ==
    /\ add_call.n < MaxAdds
    /\ IF (\E i \in DOMAIN SIGNATURES : SIGNATURES[i].name = format_name) /\ ~overwrite
       THEN /\ UNCHANGED SIGNATURES
            /\ add_call' = [format_name |-> format_name, signature |-> signature,
                            overwrite |-> overwrite, raised |-> "ValueError",
                            n |-> add_call.n + 1]
       ELSE /\ SIGNATURES' = DictSet(SIGNATURES, format_name, signature)
            /\ add_call' = [format_name |-> format_name, signature |-> signature,
                            overwrite |-> overwrite, raised |-> "none",
                            n |-> add_call.n + 1]
    /\ UNCHANGED << pipelineVars, bodyVars, sniffVars >>

SigNext ==
    \E format_name \in SigNames, signature \in CustomSigs, overwrite \in BOOLEAN :
        add_signature(format_name, signature, overwrite)

SpecSig == Init /\ [][SigNext]_vars

----------------------------------------------------------------------------
(* Definitions the properties use *)

RECURSIVE SumReturnedEvents(_)
SumReturnedEvents(S) ==
    IF S = {} THEN 0
    ELSE LET o == CHOOSE x \in S : TRUE
         IN  result[o].events + SumReturnedEvents(S \ {o})

\* every worker the pool was given has returned or raised
AllReturned == mpc # "list" /\ \A o \in 1 .. submitted : Finished(o)

\* main has returned
MainReturned == mpc \in {"done", "pool_error", "no_objects"}

\* A line TripEvent._init_ accepts: JSON with trip_id and an ISO timestamp
WellFormed(line) == TripEvent_init_(Event__init__(line)).raised = "none"

\* the text the loop writes for an accepted line
Terminated(line) == IF line.nl = 0 THEN [line EXCEPT !.nl = 1] ELSE line

RECURSIVE WellFormedLines(_)
WellFormedLines(lines) ==
    IF lines = << >> THEN << >>
    ELSE (IF WellFormed(Head(lines)) THEN << Terminated(Head(lines)) >> ELSE << >>)
         \o WellFormedLines(Tail(lines))

\* process_object has read every line of the object and is about to leave
\* the with block
LoopOver(o) == pc[o] = "parsing" /\ pos[o] = Len(stream[o])

----------------------------------------------------------------------------
(* C1: when main has returned, every listed object has been accounted for  *)
(* in the collection loop, as completed, failed or timed out: none is      *)
(* dropped.                                                                *)
C1_EveryObjectAccounted ==
    MainReturned => \A o \in Listed : report[o] # "none"

(* C2: once all workers have returned, total_events is the sum of the      *)
(* event counts that the completed objects returned.                       *)
C2_TotalIsSumOfReturned ==
    AllReturned =>
        total_events = SumReturnedEvents({o \in Listed : pc[o] = "done"})

C2_Witness ==
    /\ mpc = "done"
    /\ Cardinality({o \in Listed : pc[o] = "done"}) >= 2
    /\ \E o \in Listed : pc[o] = "failed"

(* C4: when the line loop of an object is over, its counter is the number  *)
(* of well-formed lines of the object and exactly those lines were         *)
(* written, each ended by a newline.                                       *)
C4_CountsWellFormedLines ==
    \A o \in Objs :
        LoopOver(o) =>
            /\ events[o] = Len(WellFormedLines(stream[o]))
            /\ written[o] = WellFormedLines(stream[o])

(* C5: a step in which an object fails changes no other object and leaves  *)
(* the coordinator where it is; the coordinator, on collecting a failed    *)
(* object, logs it and stays in its loop; the only exceptions that stop    *)
(* the coordinator are the batch deadline's TimeoutError and SystemExit;   *)
(* and a run whose loop ends has collected every object, failed ones       *)
(* included.                                                               *)
C5_FailureIsIsolated ==
    /\ [][\A o \in Objs :
            (pc[o] # "failed" /\ pc'[o] = "failed") =>
                /\ \A p \in Objs \ {o} :
                      /\ pc'[p] = pc[p]
                      /\ err'[p] = err[p]
                      /\ result'[p] = result[p]
                      /\ fh'[p] = fh[p]
                      /\ events'[p] = events[p]
                      /\ written'[p] = written[p]
                /\ mpc' = mpc
                /\ exc' = exc]_vars
    /\ [][\A o \in Objs :
            (o \in pending /\ o \notin pending' /\ pc[o] = "failed") =>
                /\ report'[o] \in {"failed", "timeout"}
                /\ mpc' = "collect"
                /\ exc' = "none"]_vars
    /\ [](exc \in {"none", "TimeoutError", "SystemExit"})
    /\ [](exc = "TimeoutError" => (now > end_time /\ pending # {}))
    /\ [](mpc = "done" => \A o \in Listed : Finished(o) /\ report[o] # "none")

C5_Witness ==
    /\ mpc = "done"
    /\ \E o, p \in Listed :
          /\ pc[o] = "failed" /\ report[o] = "failed"
          /\ pc[p] = "done" /\ report[p] = "completed"
          /\ o < p

(* C6: an object whose processing ran past the per-object budget is not    *)
(* reported as completed: the coordinator has failed it as a timeout.      *)
C6_OverBudgetIsTimeout ==
    \A o \in Listed :
        (pc[o] = "done" /\ result[o].proc_time > DOWNLOAD_TIMEOUT) =>
            report[o] # "completed"

(* C7: a run whose batch deadline passed with objects outstanding still    *)
(* ends with the summary, and every object that was outstanding is         *)
(* reported as timed out.                                                  *)
C7_DeadlineStillSummarises ==
    (MainReturned /\ exc = "TimeoutError") =>
        /\ summary.emitted
        /\ \A o \in pending : report[o] = "timeout"

(* C8: every run that listed an object and reached the end of main has     *)
(* emitted the summary.                                                    *)
C8_SummaryAlwaysEmitted ==
    (mpc = "done" /\ Len(objs) >= 1) => summary.emitted

(* C9: once SIGINT has been handled, no queued object is started.          *)
C9_NoStartAfterInterrupt ==
    [][exc = "SystemExit" =>
          \A o \in Objs : ~(pc[o] = "queued" /\ pc'[o] = "fetching")]_vars

(* C10: no two objects have the same output file open at the same time.    *)
C10_OutputFilesExclusive ==
    \A o, p \in Listed :
        (o # p /\ fh[o] = "open" /\ fh[p] = "open") =>
            OutPath(objs[o]) # OutPath(objs[p])

(* C11: the payload of every event constructed from an input line, and     *)
(* the text written for it, ends with exactly one newline, whether or not  *)
(* the line came with a terminator.                                        *)
C11_OneNewline ==
    line_pc \in {"constructed", "accepted", "skipped"} =>
        /\ line_ev.payload.nl = 1
        /\ LineStep(line_text).text.nl = 1

----------------------------------------------------------------------------
(* Definitions the properties of the aggregate use *)

\* earliest_time and latest_time after the timestamps of lines are folded in
RECURSIVE EarliestAfter(_, _)
EarliestAfter(cur, lines) ==
    IF lines = << >> THEN cur
    ELSE EarliestAfter(FoldEarliest(cur, Head(lines).ts), Tail(lines))

RECURSIVE LatestAfter(_, _)
LatestAfter(cur, lines) ==
    IF lines = << >> THEN cur
    ELSE LatestAfter(FoldLatest(cur, Head(lines).ts), Tail(lines))

\* the step is one of the worker of object o
WorkerStep(o) == pc'[o] # pc[o] \/ pos'[o] # pos[o]

----------------------------------------------------------------------------
(* Definitions the properties of FileFormatDetection use *)

\* the call has returned or raised
Called == sniff_out # NotCalled

\* the blob the call was given
Data == sniff_in.source.data

\* the blob can be read: the file exists and is a regular file, and no
\* method call fails
ReadOk ==
    /\ sniff_in.source.exists
    /\ sniff_in.source.fail_at = 0
    /\ sniff_in.entry = "sniff_format" => sniff_in.source.seekable

\* the call is sniff_stream on a stream that cannot seek, without buffering
Partial ==
    /\ sniff_in.entry = "sniff_stream"
    /\ ~sniff_in.source.seekable
    /\ ~sniff_in.buffer_non_seekable

\* head, tail and TAR slice of the blob
Ranges == _read_ranges(BytesIO(Data), HEAD_N, TAIL_N, TAR_PROBE_OFFSET, TAR_PROBE_LEN)

\* the entries of the table whose matcher the blob satisfies
Satisfied ==
    { i \in DOMAIN SIGNATURES :
        SigMatches(SIGNATURES[i].sig, Ranges.head, Ranges.tail, Ranges.tar_slice) }

\* the place of a signature's kind in the order prefix-and-suffix magic,
\* prefix-only magic, offset probe, suffix-contains marker, heuristic
Rank(sig) ==
    CASE "heuristic" \in DOMAIN sig -> 5
      [] "start" \in DOMAIN sig /\ "end" \in DOMAIN sig -> 1
      [] "start" \in DOMAIN sig -> 2
      [] "tar_magic" \in DOMAIN sig -> 3
      [] OTHER -> 4

\* how many method calls the entry point makes on a source none of whose
\* calls fails
CallsMade ==
    LET ranged == IF Len(Data) >= TAR_PROBE_OFFSET + TAR_PROBE_LEN THEN 9 ELSE 7
    IN  CASE sniff_in.entry = "sniff_format" /\ sniff_in.source.seekable -> 1 + ranged + 1
          [] sniff_in.entry = "sniff_format" -> 2
          [] sniff_in.source.seekable -> 2 + ranged + 1
          [] OTHER -> 2

\* the file is missing or is no regular file, or a method call fails
SourceFails ==
    \/ sniff_in.entry = "sniff_format" /\ ~sniff_in.source.exists
    \/ sniff_in.entry = "sniff_format" /\ ~sniff_in.source.seekable
    \/ sniff_in.source.fail_at \in 1 .. CallsMade

NoSignatureEvidence == << "No decisive signature found." >>

----------------------------------------------------------------------------
C13_ParquetNeedsBoth ==
    (Called /\ sniff_out.value.format = "parquet") =>
        /\ startswith(Data, PAR1)
        /\ endswith(Data, PAR1)

C13_Witness ==
    /\ Called /\ ReadOk /\ ~Partial
    /\ startswith(Data, PAR1)
    /\ ~endswith(Data, PAR1)
    /\ endswith(Data, << 80, 65, 82 >>)
    /\ sniff_out.value.format = "unknown"

(* C14: a blob shorter than 257 + 8 bytes is never tar, and no read of it  *)
(* starts beyond its end.                                                  *)
C14_ShortBlobNeverTar ==
    (Called /\ Len(Data) < TAR_PROBE_OFFSET + TAR_PROBE_LEN) =>
        /\ sniff_out.value.format # "tar"
        /\ \A i \in DOMAIN sniff_out.seeks :
              sniff_out.seeks[i] >= 0 /\ sniff_out.seeks[i] <= Len(Data)

C14_Witness ==
    /\ Called /\ ReadOk /\ ~Partial
    /\ Len(Data) = TAR_PROBE_OFFSET + TAR_PROBE_LEN - 1
    /\ Read(Data, TAR_PROBE_OFFSET, Len(USTAR_SP)) = USTAR_SP
    /\ sniff_out.value.format = "unknown"
    /\ Len(sniff_out.seeks) >= 3

(* C15: of the signatures a blob satisfies, the format returned is one     *)
(* whose kind comes first in the order prefix-and-suffix, prefix-only,     *)
(* offset-257 probe, suffix-contains, heuristic.                           *)
C15_PriorityOrder ==
    (Called /\ ReadOk /\ ~Partial /\ Satisfied # {}) =>
        \E i \in Satisfied :
            /\ SIGNATURES[i].name = sniff_out.value.format
            /\ \A j \in Satisfied : Rank(SIGNATURES[i].sig) <= Rank(SIGNATURES[j].sig)

(* C16: a successful detection has confidence 0.5 for the heuristic        *)
(* format, 0.95 or 0.9 for tar and orc, and 1.0 for every other format.    *)
C16_ConfidenceByFormat ==
    (Called /\ is_known(sniff_out.value)) =>
        CASE sniff_out.value.format = "brotli" -> sniff_out.value.confidence = 50
          [] sniff_out.value.format \in {"tar", "orc"} ->
                sniff_out.value.confidence \in {95, 90}
          [] OTHER -> sniff_out.value.confidence = 100

(* C17: sniff_format and sniff_stream never raise, and when the file is    *)
(* missing or a call on the file or stream fails, the seek that restores   *)
(* the position included, they return unknown with confidence 0.0 and an   *)
(* evidence that names the cause and is not the evidence of a blob that    *)
(* matches nothing.                                                        *)
C17_NeverRaises ==
    Called =>
        /\ sniff_out.raised = "none"
        /\ SourceFails =>
              /\ sniff_out.value.format = "unknown"
              /\ sniff_out.value.confidence = 0
              /\ sniff_out.value.evidence # NoSignatureEvidence
              /\ sniff_out.value.evidence[1] \in
                    {"File not found.", "I/O error: ", "Stream read error: "}
        /\ (ReadOk /\ Satisfied = {}) =>
              sniff_out.value.evidence = NoSignatureEvidence

C17_Witness ==
    /\ Called
    /\ sniff_in.entry = "sniff_stream"
    /\ sniff_in.source.seekable
    /\ sniff_in.source.fail_at = CallsMade
    /\ startswith(Data, GZIP_MAGIC)
    /\ sniff_out.value = FileFormatDetection("unknown", 0,
                                             << "Stream read error: ", "OSError" >>)

(* C18: a call of add_signature for a name the table holds, without        *)
(* overwrite, raises and leaves the table as it is, entries and order;     *)
(* any other call makes the table hold the given signature under the name, *)
(* once, and changes no other entry and no entry's place.                  *)
C18_AddSignature ==
    [][add_call'.n # add_call.n =>
        LET name == add_call'.format_name
            held == \E i \in DOMAIN SIGNATURES : SIGNATURES[i].name = name
        IN  IF held /\ ~add_call'.overwrite
            THEN add_call'.raised = "ValueError" /\ SIGNATURES' = SIGNATURES
            ELSE /\ add_call'.raised = "none"
                 /\ Len(SIGNATURES') = IF held THEN Len(SIGNATURES)
                                       ELSE Len(SIGNATURES) + 1
                 /\ \A i \in DOMAIN SIGNATURES :
                       SIGNATURES'[i] = IF SIGNATURES[i].name = name
                                        THEN Entry(name, add_call'.signature)
                                        ELSE SIGNATURES[i]
                 /\ ~held => SIGNATURES'[Len(SIGNATURES')] =
                                Entry(name, add_call'.signature)]_sigVars

C18_Witness ==
    /\ add_call.n = MaxAdds
    /\ add_call.raised = "ValueError"
    /\ SIGNATURES[1].name = "gzip" /\ SIGNATURES[1].sig \in CustomSigs
    /\ Len(SIGNATURES) = Len(SignatureTable) + 1
    /\ SIGNATURES[Len(SIGNATURES)].name = "custom"

----------------------------------------------------------------------------
(* C21: at most min(MAX_WORKERS, N) of the N listed objects are being      *)
(* processed at the same time; an object is given to the pool once, by     *)
(* main, starts once and never starts again; and no step of a worker       *)
(* submits or starts an object.                                            *)
C21_BoundedPool ==
    /\ [](Cardinality({o \in Listed : Running(o)}) <= Min(MAX_WORKERS, Len(objs)))
    /\ [](\A o \in Objs : pc[o] # "unsubmitted" <=> o <= submitted)
    /\ [](submitted <= Len(objs))
    /\ [][\A o \in Objs :
            pc'[o] # pc[o] =>
                /\ pc'[o] = "queued" => (pc[o] = "unsubmitted" /\ submitted' = o)
                /\ pc'[o] = "fetching" => pc[o] = "queued"
                /\ pc[o] \in {"done", "failed"} => FALSE]_vars
    /\ [][(\E o \in Objs : pc[o] \in {"fetching", "decoding", "parsing", "stats"}
                           /\ WorkerStep(o)) =>
            /\ submitted' = submitted
            /\ \A p \in Objs : pc[p] \in {"unsubmitted", "queued"} => pc'[p] = pc[p]]_vars

C21_Witness ==
    /\ Len(objs) = MAX_FILES
    /\ Cardinality({o \in Listed : Running(o)}) = MAX_WORKERS
    /\ MAX_WORKERS < Len(objs)
    /\ \E o \in Listed : pc[o] = "queued"
    /\ mpc = "collect"

====
